---- MODULE Spec2Model ----
(***************************************************************************)
(* Model of src/__init__.py (ComfyUI-disty-Flow plugin).                   *)
(*                                                                         *)
(*   Spec       download_or_update_flows / _copy_directory: the merge of   *)
(*              a freshly cloned tree into FLOWS_PATH.                     *)
(*   SpecPkg    install_package_handler / uninstall_package_handler on     *)
(*              CUSTOM_NODES_DIR.                                          *)
(*   SpecSetup  setup_server / AppManager.setup_app_routes.                *)
(*   SpecFlow   create_flow_handler on FLOWS_PATH.                         *)
(*                                                                         *)
(* A directory tree is a function from the relative paths that exist to    *)
(* their entries; a path is a sequence of names; <<>> is the tree's root.  *)
(***************************************************************************)
EXTENDS Integers, Sequences, FiniteSets, TLC

VARIABLES
    src,        \* the tree `git clone` produces under temp_repo_path
    dest,       \* the tree at FLOWS_PATH (empty function: FLOWS_PATH absent)
    tmp,        \* TRUE while the TemporaryDirectory of the call exists
    pc,         \* position in download_or_update_flows
    stack,      \* active iterdir loops: the top-level loop, then _copy_directory calls
    rc,         \* what subprocess.run did in the current call
    outcome,    \* how the current call ended
    calls,      \* filesystem-changing calls the current call has made
    snap,       \* dest at the start of each call so far
    hist,       \* rc and outcome of the calls that have returned
    fs,         \* CUSTOM_NODES_DIR, the packages in it, and what lies beside it
    req,        \* the last package request
    resp,       \* the response to it
    before,     \* fs when the last request arrived
    served,     \* number of package requests answered
    flowsDir,   \* TRUE when FLOWS_PATH exists as setup_app_routes finds it
    flows,      \* what each entry of FLOWS_PATH is, as setup_app_routes finds it
    spc,        \* position in setup_server
    todo,       \* entries the loop over FLOWS_PATH.iterdir() has not reached
    routes,     \* flow directories whose routes the app has
    appConfigs, \* APP_CONFIGS
    apiRoutes,  \* TRUE once the /api/* routes are registered
    flowsPath,  \* FLOWS_PATH as create_flow_handler finds it: its flow folders and their files
    template,   \* TRUE when CORE_PATH/templates/index.html exists
    flowUrl,    \* flow_url of the last create request
    flowResp,   \* the response to it
    flowBefore, \* flowsPath when the last create request arrived
    nflow       \* number of create requests answered

syncVars == <<src, dest, tmp, pc, stack, rc, outcome, calls, snap, hist>>
pkgVars == <<fs, req, resp, before, served>>
setupVars == <<flowsDir, flows, spc, todo, routes, appConfigs, apiRoutes>>
flowVars == <<flowsPath, template, flowUrl, flowResp, flowBefore, nflow>>
vars == <<syncVars, pkgVars, setupVars, flowVars>>

----------------------------------------------------------------------------
(* Bounds *)

\* number of distinct file contents
MaxContent == 2
\* number of calls of download_or_update_flows in one behaviour
MaxPasses == 2

\* longest 'packageUrl' a request carries
MaxUrlLen == 2
\* number of package requests in one behaviour
MaxRequests == 2

\* longest 'url' a flowConfig carries
MaxFlowUrlLen == 2
\* number of parts in one multipart request
MaxParts == 2
\* number of create requests in one behaviour
MaxCreates == 2

\* relative paths the clone may populate
SrcPaths ==
    { <<"a">>, <<"b">>, <<".git">>, <<"a", "a">>, <<"a", ".github">>, <<"a", "a", "a">> }
\* relative paths FLOWS_PATH may populate before the first call
DestPaths ==
    { <<"a">>, <<"a", "a">> }

----------------------------------------------------------------------------
(* Trees *)

DirEntry == [kind |-> "dir", content |-> 0]
FileEntry(c) == [kind |-> "file", content |-> c]
Entries == {DirEntry} \cup {FileEntry(c) : c \in 1..MaxContent}

Root == << >>
NoTree == << >>

Last(p) == p[Len(p)]
Parent(p) == SubSeq(p, 1, Len(p) - 1)
IsPrefix(q, p) == Len(q) <= Len(p) /\ SubSeq(p, 1, Len(q)) = q

\* Path.exists(): a path below a regular file does not exist (ENOTDIR is swallowed)
Exists(t, p) == p \in DOMAIN t
\* Path.is_dir()
IsDir(t, p) == p \in DOMAIN t /\ t[p].kind = "dir"

\* Path.iterdir(): the names of the children of directory p
IterDir(t, p) == { Last(q) : q \in { r \in DOMAIN t : Len(r) = Len(p) + 1 /\ Parent(r) = p } }

Put(t, p, e) == [q \in DOMAIN t \cup {p} |-> IF q = p THEN e ELSE t[q]]

ValidTree(t) ==
    /\ Root \in DOMAIN t
    /\ t[Root] = DirEntry
    /\ \A p \in DOMAIN t : p # Root => IsDir(t, Parent(p))

TreesOver(P) ==
    { t \in UNION { [S \cup {Root} -> Entries] : S \in SUBSET P } : ValidTree(t) }
\* a clone always holds the repository's .git directory
SrcTrees == { t \in TreesOver(SrcPaths) : IsDir(t, <<".git">>) }
DestTrees == TreesOver(DestPaths)

\* the names download_or_update_flows and _copy_directory skip
Denylist == {".git", ".github"}

----------------------------------------------------------------------------
(* Library calls used by the merge *)

\* shutil.copy2(item, dest_item): "if dst specifies a directory, the file is
\* copied into dst using the base filename from src"
Copy2Target(t, p, n) == IF IsDir(t, p) THEN Append(p, n) ELSE p

\* open(dst, 'wb') succeeds: dst's parent is a directory and dst is not one
Copy2Ok(t, q) == IsDir(t, Parent(q)) /\ ~IsDir(t, q)

\* a copy of the directory alone, without what it holds
CopyTreeShallow(t, s, item) == Put(t, item, DirEntry)

\* shutil.copytree(item, dest_item): the whole subtree below item, nothing skipped
CopyTree(t, s, item) ==
    LET sub == { p \in DOMAIN s : IsPrefix(item, p) }
    IN  [q \in DOMAIN t \cup sub |-> IF q \in sub THEN s[q] ELSE t[q]]

\* dest_item.mkdir() succeeds: the parent is a directory and nothing is there
MkdirOk(t, p) == IsDir(t, Parent(p)) /\ ~Exists(t, p)

\* the returncode test left out
CloneGateAlways(code) == "mkroot"

\* where download_or_update_flows goes after subprocess.run returned code
CloneGate(code) == IF code # 0 THEN "returned" ELSE "mkroot"

\* a cleanup written after the block instead of by it: skipped by an exception
TmpLeakOnRaise(raised) == raised

\* leaving the `with tempfile.TemporaryDirectory()` block, normally (return,
\* falling off the end) or by an exception: the directory is removed
TmpAfterWith(raised) == FALSE

----------------------------------------------------------------------------
(* download_or_update_flows *)

Frame(p) == [dir |-> p, todo |-> IterDir(src, p)]

RECURSIVE Unwind(_)
\* a _copy_directory call whose loop is exhausted returns to its caller's loop
Unwind(s) ==
    IF Len(s) > 1 /\ s[Len(s)].todo = {}
    THEN Unwind(SubSeq(s, 1, Len(s) - 1))
    ELSE s

Top == stack[Len(stack)]
Taken(n) == [stack EXCEPT ![Len(stack)].todo = @ \ {n}]

\* an exception leaves the with block and is caught by `except Exception`;
\* e is "ioerror" for a call the environment fails (permission denied, disk
\* full) and "error" for a call that cannot succeed on the tree as it is
Raise(e) ==
    /\ tmp' = TmpAfterWith(TRUE)
    /\ pc' = "returned"
    /\ outcome' = e
    /\ stack' = << >>

FlowNames == {"f1", "f2", "f3"}

\* setup_server is not running
SetupIdle ==
    /\ flowsDir = FALSE
    /\ flows = [n \in FlowNames |-> "absent"]
    /\ spc = "off"
    /\ todo = {}
    /\ routes = {}
    /\ appConfigs = << >>
    /\ apiRoutes = FALSE

\* a 'url' value of a flowConfig: t is "none" (no key, or null), "number"
\* (a non-zero number) or "str" with the string s
NoUrl == [t |-> "none", s |-> << >>]

\* no create request is in play
FlowIdle ==
    /\ flowsPath = [root |-> FALSE, dirs |-> << >>]
    /\ template = FALSE
    /\ flowUrl = NoUrl
    /\ flowResp = [status |-> "none", code |-> 0, text |-> "none"]
    /\ flowBefore = flowsPath
    /\ nflow = 0

\* no package request is in play
PkgIdle ==
    /\ fs = [pkgs |-> << >>, cnd |-> TRUE, above |-> TRUE]
    /\ req = [op |-> "none", url |-> << >>]
    /\ resp = [status |-> "none", msg |-> "none"]
    /\ before = fs
    /\ served = 0

SyncInit ==
    /\ src \in SrcTrees
    /\ dest \in DestTrees \cup {NoTree}
    /\ tmp = FALSE
    /\ pc = "idle"
    /\ stack = << >>
    /\ rc = "none"
    /\ outcome = "none"
    /\ calls = {}
    /\ snap = <<dest>>
    /\ hist = << >>
    /\ PkgIdle
    /\ SetupIdle
    /\ FlowIdle

\* lines 366-376: create the temporary directory, run git clone, test returncode
Clone ==
    /\ pc = "idle"
    /\ \E r \in {"zero", "nonzero", "raised"} :
         /\ rc' = r
         /\ \/ /\ r = "raised"
               /\ tmp' = TmpAfterWith(TRUE)
               /\ pc' = "returned"
               /\ outcome' = "error"
            \/ /\ r # "raised"
               /\ LET next == CloneGate(IF r = "zero" THEN 0 ELSE 1)
                  IN  /\ pc' = next
                      /\ tmp' = IF next = "returned" THEN TmpAfterWith(FALSE) ELSE TRUE
                      /\ outcome' = IF next = "returned" THEN "clonefail" ELSE "none"
    /\ UNCHANGED <<src, dest, stack, calls, snap, hist>>
    /\ UNCHANGED <<pkgVars, setupVars, flowVars>>

\* lines 377-379: create FLOWS_PATH if absent, start the loop over the clone
EnsureRoot ==
    /\ pc = "mkroot"
    /\ \E fault \in BOOLEAN :
         IF Exists(dest, Root)
         THEN /\ pc' = "merging"
              /\ stack' = <<Frame(Root)>>
              /\ UNCHANGED <<dest, tmp, outcome, calls>>
         ELSE /\ calls' = calls \cup {"mkdir_root"}
              /\ IF fault
                 THEN Raise("ioerror") /\ UNCHANGED dest
                 ELSE /\ dest' = Put(dest, Root, DirEntry)
                      /\ pc' = "merging"
                      /\ stack' = <<Frame(Root)>>
                      /\ UNCHANGED <<tmp, outcome>>
    /\ UNCHANGED <<src, rc, snap, hist>>
    /\ UNCHANGED <<pkgVars, setupVars, flowVars>>

\* lines 380-381 and 396-397: a denylisted name is skipped
SkipDenylisted ==
    /\ pc = "merging"
    /\ \E n \in Top.todo :
         /\ n \in Denylist
         /\ stack' = Unwind(Taken(n))
    /\ UNCHANGED <<src, dest, tmp, pc, rc, outcome, calls, snap, hist>>
    /\ UNCHANGED <<pkgVars, setupVars, flowVars>>

\* lines 383-385: a top-level directory that exists in FLOWS_PATH is merged
MergeDirectory ==
    /\ pc = "merging"
    /\ Len(stack) = 1
    /\ \E n \in Top.todo :
         LET item == Append(Top.dir, n)
         IN  /\ n \notin Denylist
             /\ IsDir(src, item)
             /\ Exists(dest, item)
             /\ calls' = calls \cup {"_copy_directory"}
             /\ stack' = Unwind(Append(Taken(n), Frame(item)))
    /\ UNCHANGED <<src, dest, tmp, pc, rc, outcome, snap, hist>>
    /\ UNCHANGED <<pkgVars, setupVars, flowVars>>

\* lines 386-387: a top-level directory new to FLOWS_PATH is copied whole
CopyTreeStep ==
    /\ pc = "merging"
    /\ Len(stack) = 1
    /\ \E n \in Top.todo, fault \in BOOLEAN :
         LET item == Append(Top.dir, n)
         IN  /\ n \notin Denylist
             /\ IsDir(src, item)
             /\ ~Exists(dest, item)
             /\ calls' = calls \cup {"copytree"}
             /\ IF fault
                THEN Raise("ioerror") /\ UNCHANGED dest
                ELSE /\ dest' = CopyTree(dest, src, item)
                     /\ stack' = Unwind(Taken(n))
                     /\ UNCHANGED <<tmp, pc, outcome>>
    /\ UNCHANGED <<src, rc, snap, hist>>
    /\ UNCHANGED <<pkgVars, setupVars, flowVars>>

\* lines 399-402: inside _copy_directory, a directory is created if missing
\* and then merged recursively
MkdirAndRecurse ==
    /\ pc = "merging"
    /\ Len(stack) > 1
    /\ \E n \in Top.todo, fault \in BOOLEAN :
         LET item == Append(Top.dir, n)
         IN  /\ n \notin Denylist
             /\ IsDir(src, item)
             /\ IF Exists(dest, item)
                THEN /\ calls' = calls \cup {"_copy_directory"}
                     /\ stack' = Unwind(Append(Taken(n), Frame(item)))
                     /\ UNCHANGED <<dest, tmp, pc, outcome>>
                ELSE /\ calls' = calls \cup {"mkdir"}
                     /\ IF MkdirOk(dest, item) /\ ~fault
                        THEN /\ dest' = Put(dest, item, DirEntry)
                             /\ stack' = Unwind(Append(Taken(n), Frame(item)))
                             /\ UNCHANGED <<tmp, pc, outcome>>
                        ELSE Raise(IF MkdirOk(dest, item) THEN "ioerror" ELSE "error")
                             /\ UNCHANGED dest
    /\ UNCHANGED <<src, rc, snap, hist>>
    /\ UNCHANGED <<pkgVars, setupVars, flowVars>>

\* lines 388-389 and 403-404: a file is copied with shutil.copy2
CopyFile ==
    /\ pc = "merging"
    /\ \E n \in Top.todo, fault \in BOOLEAN :
         LET item == Append(Top.dir, n)
             q == Copy2Target(dest, item, n)
         IN  /\ n \notin Denylist
             /\ ~IsDir(src, item)
             /\ calls' = calls \cup {"copy2"}
             /\ IF Copy2Ok(dest, q) /\ ~fault
                THEN /\ dest' = Put(dest, q, src[item])
                     /\ stack' = Unwind(Taken(n))
                     /\ UNCHANGED <<tmp, pc, outcome>>
                ELSE Raise(IF Copy2Ok(dest, q) THEN "ioerror" ELSE "error")
                     /\ UNCHANGED dest
    /\ UNCHANGED <<src, rc, snap, hist>>
    /\ UNCHANGED <<pkgVars, setupVars, flowVars>>

\* line 390: the loop is exhausted, success is logged, the with block ends
Finish ==
    /\ pc = "merging"
    /\ Len(stack) = 1
    /\ Top.todo = {}
    /\ tmp' = TmpAfterWith(FALSE)
    /\ pc' = "returned"
    /\ outcome' = "ok"
    /\ stack' = << >>
    /\ UNCHANGED <<src, dest, rc, calls, snap, hist>>
    /\ UNCHANGED <<pkgVars, setupVars, flowVars>>

\* the function is called again (the server is started again) with the same remote
NextPass ==
    /\ pc = "returned"
    /\ Len(snap) < MaxPasses
    /\ pc' = "idle"
    /\ rc' = "none"
    /\ outcome' = "none"
    /\ calls' = {}
    /\ snap' = Append(snap, dest)
    /\ hist' = Append(hist, [rc |-> rc, outcome |-> outcome])
    /\ UNCHANGED <<src, dest, tmp, stack>>
    /\ UNCHANGED <<pkgVars, setupVars, flowVars>>

SyncNext ==
    \/ Clone
    \/ EnsureRoot
    \/ SkipDenylisted
    \/ MergeDirectory
    \/ CopyTreeStep
    \/ MkdirAndRecurse
    \/ CopyFile
    \/ Finish
    \/ NextPass

Spec == SyncInit /\ [][SyncNext]_vars

\* dest when the current call started
dest0 == snap[Len(snap)]

TypeOK ==
    /\ pc \in {"off", "idle", "mkroot", "merging", "returned"}
    /\ tmp \in BOOLEAN
    /\ outcome \in {"none", "ok", "clonefail", "error", "ioerror"}
    /\ dest = NoTree \/ ValidTree(dest)
    /\ spc \in {"off", "start", "noinstance", "sync", "iterdir", "loop", "static", "api", "done"}
    /\ served \in 0..MaxRequests
    /\ nflow \in 0..MaxCreates
    /\ template \in BOOLEAN

----------------------------------------------------------------------------
(* install_package_handler and uninstall_package_handler *)

Chars == {"/", ".", "p"}
Urls == UNION { [1..n -> Chars] : n \in 0..MaxUrlLen }

\* the directory this plugin runs from, Path(__file__).parent
OwnName == <<"p">>
\* another package directory in CUSTOM_NODES_DIR
OtherName == <<"p", "p">>

RECURSIVE RStrip(_)
\* str.rstrip('/')
RStrip(u) ==
    IF u # << >> /\ u[Len(u)] = "/" THEN RStrip(SubSeq(u, 1, Len(u) - 1)) ELSE u

RECURSIVE LastSegment(_)
\* str.split('/')[-1]: what follows the last '/', the whole string when there is none
LastSegment(u) ==
    IF u = << >> \/ u[Len(u)] = "/"
    THEN << >>
    ELSE Append(LastSegment(SubSeq(u, 1, Len(u) - 1)), u[Len(u)])

\* package_url.rstrip('/').split('/')[-1]
PackageName(url) == LastSegment(RStrip(url))

\* CUSTOM_NODES_DIR / package_name: pathlib drops '' and '.', keeps '..'
Target(name) ==
    IF name \in {<< >>, <<".">>} THEN "self"
    ELSE IF name = <<".", ".">> THEN "parent"
    ELSE "child"

\* install_path.exists()
InstallPathExists(f, name) ==
    IF Target(name) = "child" THEN f.cnd /\ name \in DOMAIN f.pkgs ELSE f.cnd

Without(pk, S) == [n \in DOMAIN pk \ S |-> pk[n]]

\* the directory install_path after git clone wrote it, wholly or in part
Created(f, name, state) ==
    IF Target(name) = "child"
    THEN [f EXCEPT !.cnd = TRUE,
                   !.pkgs = [n \in DOMAIN f.pkgs \cup {name} |->
                                IF n = name THEN state ELSE f.pkgs[n]]]
    ELSE [f EXCEPT !.cnd = TRUE]

\* shutil.rmtree(install_path) ran to its end
Removed(f, name) ==
    IF Target(name) = "child" THEN [f EXCEPT !.pkgs = Without(f.pkgs, {name})]
    ELSE IF Target(name) = "self" THEN [f EXCEPT !.pkgs = << >>, !.cnd = FALSE]
    ELSE [pkgs |-> << >>, cnd |-> FALSE, above |-> FALSE]

\* what shutil.rmtree(install_path) leaves when a deletion fails partway
RemovedInPart(f, name) ==
    IF Target(name) = "child"
    THEN { f, [f EXCEPT !.pkgs[name] = "partial"] }
    ELSE IF Target(name) = "self"
    THEN { [f EXCEPT !.pkgs = Without(f.pkgs, S)] : S \in SUBSET DOMAIN f.pkgs }
    ELSE { f, [f EXCEPT !.above = FALSE], [f EXCEPT !.pkgs = << >>, !.above = FALSE] }

\* shutil.rmtree(install_path[, onerror=remove_readonly]): it removes the whole
\* tree, or raises with part of it removed; the final rmdir of a path that ends
\* in '..' always raises
RmTree(f, name) ==
    { [fs |-> g, raised |-> TRUE] : g \in RemovedInPart(f, name) }
    \cup (IF Target(name) = "parent"
          THEN { [fs |-> Removed(f, name), raised |-> TRUE] }
          ELSE { [fs |-> Removed(f, name), raised |-> FALSE] })

\* the install_path.exists() test forgotten: nothing is removed
RollbackSkipped(f, name) == { [fs |-> f, raised |-> FALSE] }

\* lines 161-162 and 166-167: if install_path.exists(): shutil.rmtree(install_path)
Rollback(f, name) ==
    IF InstallPathExists(f, name) THEN RmTree(f, name) ELSE { [fs |-> f, raised |-> FALSE] }

Reply(g, status, msg) == [fs |-> g, status |-> status, msg |-> msg]

\* an except clause of install_package_handler: roll back, then answer 500;
\* an exception of the rollback itself leaves the handler
Failed(f, name, msg) ==
    { Reply(o.fs, IF o.raised THEN "raised" ELSE "error", msg) : o \in Rollback(f, name) }

\* lines 149-155, then 165-169 when the rmtree of line 151 raises
RequirementsFailed(f, name) ==
    UNION { IF o.raised
            THEN Failed(o.fs, name, "unexpected")
            ELSE { Reply(o.fs, "error", "requirements") } : o \in RmTree(f, name) }

\* lines 141-169 for a package that is not installed yet
InstallOutcomes(f, name) ==
    \* git clone: CalledProcessError, or any other exception such as a missing git
    UNION { Failed(g, name, m) :
              g \in {f, Created(f, name, "partial")}, m \in {"clone", "unexpected"} }
    \* cloned; no requirements.txt, or pip succeeded
    \cup { Reply(Created(f, name, "intact"), "success", "installed") }
    \* cloned; pip exited non-zero
    \cup RequirementsFailed(Created(f, name, "intact"), name)
    \* cloned; running pip raised something else
    \cup Failed(Created(f, name, "intact"), name, "unexpected")

\* lines 212-221
UninstallOutcomes(f, name) ==
    { Reply(o.fs, IF o.raised THEN "error" ELSE "success", "uninstall") : o \in RmTree(f, name) }

PkgInit ==
    /\ \E S \in {{OwnName}, {OwnName, OtherName}} :
         fs = [pkgs |-> [n \in S |-> "intact"], cnd |-> TRUE, above |-> TRUE]
    /\ req = [op |-> "none", url |-> << >>]
    /\ resp = [status |-> "none", msg |-> "none"]
    /\ before = fs
    /\ served = 0

\* install_package_handler, lines 129-169
Install ==
    /\ served < MaxRequests
    /\ served' = served + 1
    /\ \E url \in Urls :
         LET name == PackageName(url)
         IN  /\ req' = [op |-> "install", url |-> url]
             /\ before' = fs
             /\ IF url = << >>
                THEN /\ resp' = [status |-> "400", msg |-> "missing"]
                     /\ fs' = fs
                ELSE IF InstallPathExists(fs, name)
                THEN /\ resp' = [status |-> "already_installed", msg |-> "none"]
                     /\ fs' = fs
                ELSE \E o \in InstallOutcomes(fs, name) :
                          /\ fs' = o.fs
                          /\ resp' = [status |-> o.status, msg |-> o.msg]
    /\ UNCHANGED <<syncVars, setupVars, flowVars>>

\* uninstall_package_handler, lines 198-221
Uninstall ==
    /\ served < MaxRequests
    /\ served' = served + 1
    /\ \E url \in Urls :
         LET name == PackageName(url)
         IN  /\ req' = [op |-> "uninstall", url |-> url]
             /\ before' = fs
             /\ IF url = << >>
                THEN /\ resp' = [status |-> "400", msg |-> "missing"]
                     /\ fs' = fs
                ELSE IF ~InstallPathExists(fs, name)
                THEN /\ resp' = [status |-> "not_installed", msg |-> "none"]
                     /\ fs' = fs
                ELSE \E o \in UninstallOutcomes(fs, name) :
                          /\ fs' = o.fs
                          /\ resp' = [status |-> o.status, msg |-> o.msg]
    /\ UNCHANGED <<syncVars, setupVars, flowVars>>

\* no synchronization pass is in play
SyncIdle ==
    /\ src = << >>
    /\ dest = NoTree
    /\ tmp = FALSE
    /\ pc = "off"
    /\ stack = << >>
    /\ rc = "none"
    /\ outcome = "none"
    /\ calls = {}
    /\ snap = << >>
    /\ hist = << >>

PkgNext == Install \/ Uninstall

PkgStart ==
    /\ PkgInit
    /\ SyncIdle
    /\ SetupIdle
    /\ FlowIdle

SpecPkg == PkgStart /\ [][PkgNext]_vars

\* the name the last request was about
reqName == PackageName(req.url)

\* the state of the package directory CUSTOM_NODES_DIR / name
PackageDir(f, name) == IF name \in DOMAIN f.pkgs THEN f.pkgs[name] ELSE "absent"

\* C8 as stated: after an install or uninstall of a package that answered
\* with an error, the package directory is as it was before the request.
RollsBackOnFailure ==
    (resp.status = "error" /\ Target(reqName) = "child") =>
        PackageDir(fs, reqName) = PackageDir(before, reqName)

\* C8 amended: after an install that answered with an error, the package
\* directory is absent, as it was before the request, and every other
\* package is as it was.
InstallRollsBack ==
    (req.op = "install" /\ resp.status = "error") =>
        /\ ~InstallPathExists(before, reqName)
        /\ ~InstallPathExists(fs, reqName)
        /\ \A n \in DOMAIN before.pkgs :
             n # reqName => (n \in DOMAIN fs.pkgs /\ fs.pkgs[n] = before.pkgs[n])

InstallFailedOnRequirements ==
    /\ req.op = "install"
    /\ resp = [status |-> "error", msg |-> "requirements"]
    /\ Target(reqName) = "child"
    /\ reqName \notin DOMAIN fs.pkgs

\* C10: an uninstall request removes nothing but the one package directory
\* its URL names: what lies beside CUSTOM_NODES_DIR, CUSTOM_NODES_DIR itself
\* and every other package stay as they were.
UninstallConfined ==
    req.op = "uninstall" =>
        /\ fs.above = before.above
        /\ fs.cnd = before.cnd
        /\ \A n \in DOMAIN before.pkgs :
             n # reqName => (n \in DOMAIN fs.pkgs /\ fs.pkgs[n] = before.pkgs[n])

----------------------------------------------------------------------------
(* setup_server and AppManager.setup_app_routes *)

\* What an entry of FLOWS_PATH can be:
\*   absent      no entry of that name
\*   file        not a directory
\*   noconf      a directory without flowConfig.json
\*   ok          a directory whose flowConfig.json loads and whose routes register
\*   unreadable  open() of flowConfig.json raises
\*   malformed   json.load raises
\*   notobject   the JSON is not an object: conf.get raises
\*   routeerr    create_routes or add_routes raises
\*   noaccess    a directory that cannot be searched: stat of flowConfig.json
\*               is denied, and Path.is_file() propagates PermissionError
FlowKinds ==
    {"absent", "file", "noconf", "ok", "unreadable", "malformed", "notobject",
     "routeerr", "noaccess"}

\* kinds for which lines 73-78 raise, inside the inner try
RaisesInInnerTry == {"unreadable", "malformed", "notobject", "routeerr"}

\* kinds the loop passes over without entering the inner try (lines 69-71, 81-86)
Skipped == {"file", "noconf"}

SetupInit ==
    /\ flowsDir \in BOOLEAN
    /\ flows \in [FlowNames -> FlowKinds]
    /\ ~flowsDir => flows = [n \in FlowNames |-> "absent"]
    /\ spc = "start"
    /\ todo = {}
    /\ routes = {}
    /\ appConfigs = << >>
    /\ apiRoutes = FALSE

\* lines 407-411: the server instance is fetched, or setup_server returns
GetInstance ==
    /\ spc = "start"
    /\ spc' \in {"sync", "noinstance"}
    /\ UNCHANGED <<flowsDir, flows, todo, routes, appConfigs, apiRoutes>>
    /\ UNCHANGED <<syncVars, pkgVars, flowVars>>

\* lines 413-416: download_or_update_flows logs its failures and returns
SyncPass ==
    /\ spc = "sync"
    /\ \E o \in {"ok", "clonefail", "error"} :
         /\ outcome' = o
         /\ spc' = "iterdir"
    /\ UNCHANGED <<flowsDir, flows, todo, routes, appConfigs, apiRoutes>>
    /\ UNCHANGED <<src, dest, tmp, pc, stack, rc, calls, snap, hist, pkgVars, flowVars>>

\* line 68: FLOWS_PATH.iterdir(); a missing FLOWS_PATH raises into line 87
IterStart ==
    /\ spc = "iterdir"
    /\ todo' = IF flowsDir THEN { n \in FlowNames : flows[n] # "absent" } ELSE {}
    /\ spc' = IF todo' = {} THEN "static" ELSE "loop"
    /\ UNCHANGED <<flowsDir, flows, routes, appConfigs, apiRoutes>>
    /\ UNCHANGED <<syncVars, pkgVars, flowVars>>

AfterVisit(rest) == IF rest = {} THEN "static" ELSE "loop"

\* lines 69-71 and 81-86: not a directory, or no flowConfig.json
VisitSkipped ==
    /\ spc = "loop"
    /\ \E n \in todo :
         /\ flows[n] \in Skipped
         /\ todo' = todo \ {n}
         /\ spc' = AfterVisit(todo')
    /\ UNCHANGED <<flowsDir, flows, routes, appConfigs, apiRoutes>>
    /\ UNCHANGED <<syncVars, pkgVars, flowVars>>

\* lines 72-78: the config loads, the routes are added, the config is appended
VisitLoaded ==
    /\ spc = "loop"
    /\ \E n \in todo :
         /\ flows[n] = "ok"
         /\ routes' = routes \cup {n}
         /\ appConfigs' = Append(appConfigs, n)
         /\ todo' = todo \ {n}
         /\ spc' = AfterVisit(todo')
    /\ UNCHANGED <<flowsDir, flows, apiRoutes>>
    /\ UNCHANGED <<syncVars, pkgVars, flowVars>>

\* lines 72-80: an exception inside the inner try is logged, the loop goes on
VisitFailed ==
    /\ spc = "loop"
    /\ \E n \in todo :
         /\ flows[n] \in RaisesInInnerTry
         /\ todo' = todo \ {n}
         /\ spc' = AfterVisit(todo')
    /\ UNCHANGED <<flowsDir, flows, routes, appConfigs, apiRoutes>>
    /\ UNCHANGED <<syncVars, pkgVars, flowVars>>

\* lines 71 and 87-88: conf_file.is_file() raises outside the inner try; the
\* outer except ends the loop
VisitDenied ==
    /\ spc = "loop"
    /\ \E n \in todo :
         /\ flows[n] = "noaccess"
         /\ todo' = {}
         /\ spc' = "static"
    /\ UNCHANGED <<flowsDir, flows, routes, appConfigs, apiRoutes>>
    /\ UNCHANGED <<syncVars, pkgVars, flowVars>>

\* lines 90-106 and 418-421: the core, flower, linker and flow routes; an
\* exception here is caught by setup_server
RegisterStatic ==
    /\ spc = "static"
    /\ spc' = "api"
    /\ UNCHANGED <<flowsDir, flows, todo, routes, appConfigs, apiRoutes>>
    /\ UNCHANGED <<syncVars, pkgVars, flowVars>>

\* lines 423-439
RegisterApi ==
    /\ spc = "api"
    /\ apiRoutes' = TRUE
    /\ spc' = "done"
    /\ UNCHANGED <<flowsDir, flows, todo, routes, appConfigs>>
    /\ UNCHANGED <<syncVars, pkgVars, flowVars>>

SetupNext ==
    \/ GetInstance
    \/ SyncPass
    \/ IterStart
    \/ VisitSkipped
    \/ VisitLoaded
    \/ VisitFailed
    \/ VisitDenied
    \/ RegisterStatic
    \/ RegisterApi

SetupStart ==
    /\ SetupInit
    /\ SyncIdle
    /\ PkgIdle
    /\ FlowIdle

SpecSetup == SetupStart /\ [][SetupNext]_vars

Listed(n) == \E i \in 1..Len(appConfigs) : appConfigs[i] = n

\* C9: when setup_server is through, every flow directory with a loadable
\* flowConfig.json has its routes and its APP_CONFIGS entry, and the /api/*
\* routes are registered, whatever the synchronization pass and the other
\* flow directories did.
FailureIsolation ==
    spc = "done" =>
        /\ apiRoutes
        /\ \A n \in FlowNames : flows[n] = "ok" => (n \in routes /\ Listed(n))

----------------------------------------------------------------------------
(* Properties of the synchronization pass *)

\* no component of p is a denylisted name
Visible(p) == \A i \in 1..Len(p) : p[i] \notin Denylist

\* C1: every entry FLOWS_PATH held before the pass at a path the clone has no
\* entry for is still there, unchanged, at every point of the pass.
NonDestructive ==
    \A p \in DOMAIN dest0 :
        p \notin DOMAIN src => (p \in DOMAIN dest /\ dest[p] = dest0[p])

\* C2: after a pass that logged success, every entry of the clone that is not
\* denylisted is in FLOWS_PATH at the same path, with the same type and content.
SourceWins ==
    (pc = "returned" /\ outcome = "ok") =>
        \A p \in DOMAIN src : Visible(p) => (p \in DOMAIN dest /\ dest[p] = src[p])

\* C3: a pass that starts on a FLOWS_PATH without denylisted names never puts
\* one there, at any depth.
ExclusionEnforced ==
    (\A p \in DOMAIN dest0 : Visible(p)) => (\A p \in DOMAIN dest : Visible(p))

\* C4: once git clone has returned a non-zero status, the call has returned,
\* has made no filesystem-changing call, and FLOWS_PATH is what it was.
FetchFailureGatesMerge ==
    rc = "nonzero" => (pc = "returned" /\ calls = {} /\ dest = dest0)

FetchFailedAbsentStaysAbsent ==
    rc = "nonzero" /\ pc = "returned" /\ dest0 = NoTree /\ dest = NoTree

\* C5: when download_or_update_flows has returned, on whatever path, its
\* temporary directory is gone.
CleanupGuarantee ==
    pc = "returned" => ~tmp

CleanedAfterMidMergeException ==
    /\ pc = "returned"
    /\ outcome \in {"error", "ioerror"}
    /\ ~tmp
    /\ rc = "zero"
    /\ dest # dest0

\* a clone entry and the FLOWS_PATH entry at the same path differ in type
Collision ==
    \E p \in DOMAIN src \cap DOMAIN dest0 :
        Visible(p) /\ src[p].kind # dest0[p].kind

\* C6: a pass over trees with a file-versus-directory collision ends in the
\* error outcome.
CollisionFails ==
    (pc = "returned" /\ rc = "zero" /\ Collision) => outcome \in {"error", "ioerror"}

\* C7 as stated: whenever two passes in a row both ran the merge, and the
\* environment failed no call of either, the second leaves FLOWS_PATH as the
\* first left it.
IdempotentAlways ==
    ( /\ Len(snap) >= 2
      /\ pc = "returned"
      /\ rc = "zero"
      /\ outcome # "ioerror"
      /\ hist[Len(hist)].rc = "zero"
      /\ hist[Len(hist)].outcome # "ioerror" ) => dest = dest0

\* C7 amended: when a pass logged success, a further pass that also logs
\* success leaves FLOWS_PATH as the first left it.
IdempotentAfterSuccess ==
    ( /\ Len(snap) >= 2
      /\ pc = "returned"
      /\ outcome = "ok"
      /\ hist[Len(hist)].outcome = "ok" ) => dest = dest0

SecondPassCopiedAgain ==
    /\ Len(snap) = 2
    /\ pc = "returned"
    /\ outcome = "ok"
    /\ hist[1].outcome = "ok"
    /\ snap[2] # snap[1]
    /\ {"copy2", "_copy_directory"} \subseteq calls

----------------------------------------------------------------------------
(* create_flow_handler *)

\* characters a 'url' is made of; "f" stands for the letters, digits, '_' and '-'
FlowChars == {"f", "/", "\n"}

\* the characters [\w\-] matches
WordChars == {"f"}

FlowUrls == UNION { [1..n -> FlowChars] : n \in 0..MaxFlowUrlLen }

\* SAFE_FOLDER_NAME_REGEX.match(u) for a string u: one or more word characters
\* up to the end, where '$' also matches just before one final newline
SafeFolderName(u) ==
    LET body == IF Len(u) > 1 /\ u[Len(u)] = "\n" THEN SubSeq(u, 1, Len(u) - 1) ELSE u
    IN  /\ Len(body) > 0
        /\ \A i \in 1..Len(body) : body[i] \in WordChars

\* what flow_config.get('url', None) can be
UrlValues ==
    {NoUrl, [t |-> "number", s |-> << >>]} \cup { [t |-> "str", s |-> u] : u \in FlowUrls }

\* `not flow_url` is false
Truthy(v) == v.t = "number" \/ (v.t = "str" /\ Len(v.s) > 0)

\* The parts of a multipart request.  A 'flowConfig' part holds text that is
\* not JSON ("invalid"), JSON that is not an object ("array") or an object
\* with the given 'url'; a 'wf' part holds no bytes ("empty") or some ("bytes").
Parts ==
    { [name |-> "flowConfig", json |-> j, url |-> NoUrl, wf |-> "none"] :
        j \in {"invalid", "array"} }
    \cup { [name |-> "flowConfig", json |-> "object", url |-> v, wf |-> "none"] :
             v \in UrlValues }
    \cup { [name |-> "wf", json |-> "none", url |-> NoUrl, wf |-> w] :
             w \in {"empty", "bytes"} }
    \cup { [name |-> "other", json |-> "none", url |-> NoUrl, wf |-> "none"] }

\* a request: multipart is FALSE when request.multipart() raises
Requests ==
    { [multipart |-> FALSE, parts |-> << >>] }
    \cup { [multipart |-> TRUE, parts |-> ps] :
             ps \in UNION { [1..n -> Parts] : n \in 0..MaxParts } }

\* lines 259-261
NoParts == [flow_config |-> FALSE, wf_file |-> "none", flow_url |-> NoUrl, ret |-> "loop"]

\* lines 263-278: the loop over the parts.  ret is "done" when reader.next()
\* gave None, "missing_url" for the return of line 273 and "raise" when
\* json.loads or flow_config.get raised.
RECURSIVE ReadParts(_, _)
ReadParts(ps, st) ==
    IF ps = << >> THEN [st EXCEPT !.ret = "done"]
    ELSE LET part == Head(ps) IN
         IF part.name = "flowConfig"
         THEN IF part.json \in {"invalid", "array"} THEN [st EXCEPT !.ret = "raise"]
              ELSE IF ~Truthy(part.url) THEN [st EXCEPT !.ret = "missing_url"]
              ELSE ReadParts(Tail(ps), [st EXCEPT !.flow_config = TRUE, !.flow_url = part.url])
         ELSE IF part.name = "wf"
         THEN ReadParts(Tail(ps), [st EXCEPT !.wf_file = part.wf])
         ELSE ReadParts(Tail(ps), st)

FlowOk == [status |-> "success", code |-> 200, text |-> "created"]
FlowError(c, t) == [status |-> "error", code |-> c, text |-> t]

\* flow_folder.exists()
FlowFolderExists(fp, u) == fp.root /\ u \in DOMAIN fp.dirs

\* lines 258-290: the response the handler gives before it touches FLOWS_PATH,
\* or "proceed" in text when it goes on to line 292
Validate(r, fp) ==
    LET st == IF r.multipart THEN ReadParts(r.parts, NoParts)
              ELSE [NoParts EXCEPT !.ret = "raise"]
    IN  IF st.ret = "raise" THEN FlowError(500, "exception")
        ELSE IF st.ret = "missing_url" THEN FlowError(400, "missing url")
        ELSE IF ~st.flow_config \/ st.wf_file \in {"none", "empty"}
             THEN FlowError(400, "missing part")
        ELSE IF st.flow_url.t # "str" THEN FlowError(500, "exception")
        ELSE IF ~SafeFolderName(st.flow_url.s) THEN FlowError(400, "invalid url")
        ELSE IF FlowFolderExists(fp, st.flow_url.s) THEN FlowError(400, "already exists")
        ELSE [status |-> "none", code |-> 0, text |-> "proceed"]

\* flow_url as the handler has it when it answers
FlowUrlOf(r) ==
    IF r.multipart THEN ReadParts(r.parts, NoParts).flow_url ELSE NoUrl

\* a file of a flow folder: whole is FALSE when the write stopped partway
FlowFile(k, u, w) == [kind |-> k, url |-> u, whole |-> w]

FlowFileNames == {"flowConfig.json", "wf.json", "index.html"}

\* the folder after lines 292-309 ran to the end
WholeFlow(u) ==
    [n \in FlowFileNames |->
        IF n = "flowConfig.json" THEN FlowFile("config", u, TRUE)
        ELSE IF n = "wf.json" THEN FlowFile("wf", << >>, TRUE)
        ELSE FlowFile("template", << >>, TRUE)]

\* the files of f named in S
Only(f, S) == [n \in S |-> f[n]]

\* f with the file n cut short
Partial(f, n) == [f EXCEPT ![n].whole = FALSE]

\* the calls of lines 292-309 the environment can fail
FlowFaults ==
    {"none", "mkdir_parents", "mkdir", "open_config", "write_config",
     "open_wf", "write_wf", "copy2"}

WithFolder(fp, u, files) == [root |-> TRUE, dirs |-> fp.dirs @@ (u :> files)]

\* lines 292-316: the folder is made, the two files are written, the template
\* is looked for and copied; what is on disk when a call fails stays there
WriteFlow(fp, u, fault, tmpl) ==
    LET w == WholeFlow(u)
        exc == FlowError(500, "exception")
        cfg == {"flowConfig.json"}
        two == {"flowConfig.json", "wf.json"}
    IN  IF fault = "mkdir_parents" THEN [tree |-> fp, resp |-> exc]
        ELSE IF fault = "mkdir" THEN [tree |-> [fp EXCEPT !.root = TRUE], resp |-> exc]
        ELSE IF fault = "open_config" THEN [tree |-> WithFolder(fp, u, << >>), resp |-> exc]
        ELSE IF fault = "write_config"
             THEN [tree |-> WithFolder(fp, u, Partial(Only(w, cfg), "flowConfig.json")),
                   resp |-> exc]
        ELSE IF fault = "open_wf" THEN [tree |-> WithFolder(fp, u, Only(w, cfg)), resp |-> exc]
        ELSE IF fault = "write_wf"
             THEN [tree |-> WithFolder(fp, u, Partial(Only(w, two), "wf.json")), resp |-> exc]
        ELSE IF ~tmpl
             THEN [tree |-> WithFolder(fp, u, Only(w, two)),
                   resp |-> FlowError(500, "template not found")]
        ELSE IF fault = "copy2"
             THEN [tree |-> WithFolder(fp, u, Partial(w, "index.html")), resp |-> exc]
        ELSE [tree |-> WithFolder(fp, u, w), resp |-> FlowOk]

FlowInit ==
    /\ \E fp \in { [root |-> FALSE, dirs |-> << >>],
                   [root |-> TRUE, dirs |-> << >>],
                   [root |-> TRUE, dirs |-> (<<"f">> :> WholeFlow(<<"f">>))] } :
         flowsPath = fp
    /\ template \in BOOLEAN
    /\ flowUrl = NoUrl
    /\ flowResp = [status |-> "none", code |-> 0, text |-> "none"]
    /\ flowBefore = flowsPath
    /\ nflow = 0

\* create_flow_handler, lines 256-316
CreateFlow ==
    /\ nflow < MaxCreates
    /\ nflow' = nflow + 1
    /\ flowBefore' = flowsPath
    /\ \E r \in Requests :
         LET v == Validate(r, flowsPath) IN
         /\ flowUrl' = FlowUrlOf(r)
         /\ IF v.text # "proceed"
            THEN /\ flowResp' = v
                 /\ flowsPath' = flowsPath
            ELSE \E fault \in FlowFaults :
                   LET out == WriteFlow(flowsPath, FlowUrlOf(r).s, fault, template) IN
                   /\ flowResp' = out.resp
                   /\ flowsPath' = out.tree
    /\ UNCHANGED template
    /\ UNCHANGED <<syncVars, pkgVars, setupVars>>

FlowNext == CreateFlow

FlowStart ==
    /\ FlowInit
    /\ SyncIdle
    /\ PkgIdle
    /\ SetupIdle

SpecFlow == FlowStart /\ [][FlowNext]_vars

\* the folder FLOWS_PATH/<url> of the last request, << >> when there is none
FlowFolder(fp) ==
    IF flowUrl.t = "str" /\ FlowFolderExists(fp, flowUrl.s) THEN fp.dirs[flowUrl.s] ELSE << >>

\* C11: create_flow_handler is all-or-nothing on FLOWS_PATH: after a request,
\* either the response is a success and FLOWS_PATH/<url> holds flowConfig.json,
\* wf.json and index.html, or the response is an error and FLOWS_PATH holds
\* the flow folders it held before the request, no more and no less (so no
\* partly written folder makes a retry of the url fail with 'already
\* exists'); a flow folder that existed before the request is never modified.
CreateAllOrNothing ==
    nflow > 0 =>
        /\ flowResp.status = "success" =>
             /\ DOMAIN FlowFolder(flowsPath) = FlowFileNames
             /\ \A n \in FlowFileNames : FlowFolder(flowsPath)[n].whole
        /\ flowResp.status = "error" => flowsPath.dirs = flowBefore.dirs
        /\ \A u \in DOMAIN flowBefore.dirs :
             u \in DOMAIN flowsPath.dirs /\ flowsPath.dirs[u] = flowBefore.dirs[u]

====
